---- MODULE Spec2Model ----
(***************************************************************************)
(* Model of scholar_webpages_to_singlepage_pdf.py: the capture / retry /   *)
(* merge pipeline of main(), with the browser, the clock and the file      *)
(* system as the environment.  Strings are sequences of one-character      *)
(* strings.                                                                *)
(***************************************************************************)
EXTENDS Integers, Sequences, FiniteSets, TLC

(* ------------------------------ bounds --------------------------------- *)
\* longest resolved URL sequence explored
MaxUrls == 2
\* largest --rest-every explored (1..MaxRest)
MaxRest == 2
\* largest --captcha-timeout explored, in seconds
MaxCaptchaTimeout == 4

(* ------------------------- program constants --------------------------- *)
\* while attempts < 3
MaxAttempts == 3
\* attempts, backoff = 0, 3
BackoffBase == 3
\* time.sleep(3) inside the CAPTCHA poll loop
PollInterval == 3
\* base[:150]
MaxNameLen == 150

(* ------------------------------ strings -------------------------------- *)
SafeChars == {"a", "b", "e", "g", "h", "p", "0", "1", "2", "3", "4", "5", "6", "7", "8", "9",
              ".", "_", "-"}

\* str.strip(): leading and trailing whitespace removed
RECURSIVE strip(_)
strip(s) ==
  IF s = <<>> THEN s
  ELSE IF Head(s) = " " THEN strip(Tail(s))
  ELSE IF s[Len(s)] = " " THEN strip(SubSeq(s, 1, Len(s) - 1))
  ELSE s

\* s.split("://")[-1]: what follows the last occurrence of "://"
SepStarts(s) ==
  {k \in 1..Len(s) : k + 2 <= Len(s) /\ SubSeq(s, k, k + 2) = <<":", "/", "/">>}

Max(S) == CHOOSE x \in S : \A y \in S : y <= x

AfterLastSep(s) ==
  IF SepStarts(s) = {} THEN s
  ELSE SubSeq(s, Max(SepStarts(s)) + 3, Len(s))

\* SAFE.sub("_", base): every maximal run of characters outside
\* [a-zA-Z0-9._-] becomes one "_"; inRun tells whether the character before
\* s belongs to such a run. The scan is split in halves so that a name of
\* 150 characters is computed at a small recursion depth.
RECURSIVE SafeSub(_, _)
SafeSub(s, inRun) ==
  IF s = <<>> THEN <<>>
  ELSE IF Len(s) = 1 THEN
    IF s[1] \in SafeChars THEN s
    ELSE IF inRun THEN <<>>
    ELSE <<"_">>
  ELSE LET m == Len(s) \div 2 IN
       SafeSub(SubSeq(s, 1, m), inRun)
         \o SafeSub(SubSeq(s, m + 1, Len(s)), s[m] \notin SafeChars)

TruncateNone(s, n) == s

\* base[:150]
Truncate(s, n) == SubSeq(s, 1, IF Len(s) < n THEN Len(s) ELSE n)

safe_name(url) ==
  LET base == Truncate(AfterLastSep(strip(url)), MaxNameLen)
      out  == SafeSub(base, FALSE)
  IN  IF out = <<>> THEN <<"p", "a", "g", "e">> ELSE out

DigitChars == <<"0", "1", "2", "3", "4", "5", "6", "7", "8", "9">>

\* decimal digits of n, most significant first
RECURSIVE Digits(_)
Digits(n) ==
  IF n < 10 THEN <<DigitChars[n + 1]>>
  ELSE Digits(n \div 10) \o <<DigitChars[(n % 10) + 1]>>

RECURSIVE ZeroPad(_, _)
ZeroPad(s, w) == IF Len(s) >= w THEN s ELSE ZeroPad(<<"0">> \o s, w)

OutPathNoOrdinal(k, url) == safe_name(url) \o <<".", "p", "d", "f">>

\* name = f"{i:03d}_{safe_name(url)}.pdf"; out_path = out_dir / name
OutPath(k, url) ==
  ZeroPad(Digits(k), 3) \o <<"_">> \o safe_name(url) \o <<".", "p", "d", "f">>

(* ------------------------------ inputs --------------------------------- *)
\* "h://a?b" and "a&b": two different URLs with the same safe name
UrlPool == { <<"h", ":", "/", "/", "a", "?", "b">>, <<"a", "&", "b">> }

UrlSeqs == UNION { [1..n -> UrlPool] : n \in 0..MaxUrls }

PageKinds == {"content", "challenge"}

VARIABLES
  urls,            \* the resolved URL sequence
  headful,         \* args.headful
  rest_every,      \* args.rest_every
  captcha_timeout, \* args.captcha_timeout
  pc,              \* position of main() in its code
  i,               \* loop index of `for i, url in enumerate(urls, 1)`
  attempts,        \* local of the retry loop
  backoff,         \* local of the retry loop
  out_path,        \* out_dir / name of the current iteration
  exc,             \* exception in flight: "none", "WebDriverException",
                   \* "OSError_write" (line 74) or "OSError_merge" (line 34)
  session,         \* the browser session: "none", "open", "closed"
  page,            \* what the session currently shows
  elapsed,         \* time.time() - (end - timeout_s) in maybe_wait_for_captcha
  captcha,         \* how maybe_wait_for_captcha went in the current attempt
  navs,            \* driver.get calls of the current attempt
  pdf_paths,       \* the list pdf_paths
  files,           \* out_dir: path -> page sequence of the PDF written there
  writes,          \* out_dir: path -> number of write_bytes calls on it
  merged,          \* the merged output: [state, pages]
  exitStatus,      \* "running", "0", "1", "2", or "traceback"
  quitCount,       \* calls of driver.quit()
  log,             \* per URL position: the sleeps and attempts made for it
  call,            \* the function entered, with its arguments
  ret              \* what a function called on its own returned

vars == <<urls, headful, rest_every, captcha_timeout, pc, i, attempts, backoff,
          out_path, exc, session, page, elapsed, captcha, navs, pdf_paths,
          files, writes, merged, exitStatus, quitCount, log, call, ret>>

config == <<urls, headful, rest_every, captcha_timeout, call, ret>>

N == Len(urls)

url == urls[i]

EmptyLog ==
  [path |-> <<>>, pacing |-> 0, attempts |-> 0, backoffs |-> <<>>,
   cooldowns |-> 0]

Init ==
  /\ urls \in UrlSeqs
  /\ headful \in BOOLEAN
  /\ rest_every \in 1..MaxRest
  /\ captcha_timeout \in {0, MaxCaptchaTimeout}
  /\ pc = "start"
  /\ i = 0
  /\ attempts = 0
  /\ backoff = 0
  /\ out_path = <<>>
  /\ exc = "none"
  /\ session = "none"
  /\ page = "blank"
  /\ elapsed = 0
  /\ captcha = "none"
  /\ navs = 0
  /\ pdf_paths = <<>>
  /\ files = [p \in {} |-> <<>>]
  /\ writes = [p \in {} |-> 0]
  /\ merged = [state |-> "absent", pages |-> <<>>]
  /\ exitStatus = "running"
  /\ quitCount = 0
  /\ log = [k \in 1..Len(urls) |-> EmptyLog]
  /\ call = [fn |-> "main"]
  /\ ret = <<>>

(* ------------------------- decisions of main() ------------------------- *)
\* while attempts < 3
ShouldAttempt(a) == a < MaxAttempts

NextBackoffLinear(b) == b + BackoffBase

\* backoff *= 2
NextBackoff(b) == b * 2

CaughtTimeoutOnly(e) == e = "TimeoutException"

CaughtAny(e) == e # "none"

\* except WebDriverException
Caught(e) == e = "WebDriverException"

CooldownDueAlsoLast(k, n, r) == k % r = 0

\* if i % args.rest_every == 0 and i < len(urls)
CooldownDue(k, n, r) == k % r = 0 /\ k < n

ChecksCaptchaAlways(h) == TRUE

\* if args.headful and maybe_wait_for_captcha(...): the left operand
ChecksCaptcha(h) == h

PollMoreNoDeadline(el, t) == TRUE

\* while time.time() < end
PollMore(el, t) == el < t

ElapseClockFrozen(el) == el

\* lines 169-170: time.sleep(3) moves time.time() towards the deadline
Elapse(el) == el + PollInterval

\* the three find_elements lookups: the markers of a challenge page
MarkersPresent(pg) == pg = "challenge"

\* if not urls
NoUrls(us) == us = <<>>

NothingToMergeNever(ps) == FALSE

\* if not pdf_paths
NothingToMerge(ps) == ps = <<>>

RecordInFront(ps, p) == <<p>> \o ps

\* pdf_paths.append(out_path)
Record(ps, p) == Append(ps, p)

RECURSIVE MergePagesFirstPageOnly(_, _)
MergePagesFirstPageOnly(inputs, fs) ==
  IF inputs = <<>> THEN <<>>
  ELSE SubSeq(fs[Head(inputs)], 1, IF fs[Head(inputs)] = <<>> THEN 0 ELSE 1)
       \o MergePagesFirstPageOnly(Tail(inputs), fs)

\* merge_pdfs: the pages of every input, in input order
RECURSIVE MergePages(_, _)
MergePages(inputs, fs) ==
  IF inputs = <<>> THEN <<>>
  ELSE fs[Head(inputs)] \o MergePages(Tail(inputs), fs)

\* Path.write_bytes / open(.., "wb"): the file holds exactly `data` afterwards
WriteFile(fs, p, data) ==
  [q \in DOMAIN fs \cup {p} |-> IF q = p THEN data ELSE fs[q]]

Bump(ws, p) ==
  [q \in DOMAIN ws \cup {p} |-> IF q = p /\ p \in DOMAIN ws THEN ws[q] + 1
                                 ELSE IF q = p THEN 1 ELSE ws[q]]

LogAt(field, v) == [log EXCEPT ![i][field] = v]

AttemptLocals == <<elapsed, captcha, navs>>

Outputs == <<pdf_paths, files, writes, merged>>

(* ------------------------------ main() --------------------------------- *)
\* lines 131-152: the empty input check, then the session is acquired
Start ==
  /\ pc = "start"
  /\ \/ /\ NoUrls(urls)
        /\ exitStatus' = "1"
        /\ pc' = "done"
        /\ UNCHANGED session
     \/ /\ ~NoUrls(urls)
        /\ session' = "open"
        /\ pc' = "for"
        /\ UNCHANGED exitStatus
  /\ UNCHANGED <<config, i, out_path, attempts, backoff, exc, page,
                 AttemptLocals,
                 Outputs, quitCount, log>>

\* lines 186-189: for i, url in enumerate(urls, 1): out_path is computed
\* and named on the progress line
ForNext ==
  /\ pc = "for"
  /\ \/ /\ i < N
        /\ i' = i + 1
        /\ out_path' = OutPath(i + 1, urls[i + 1])
        /\ log' = [log EXCEPT ![i + 1].path = OutPath(i + 1, urls[i + 1])]
        /\ pc' = "pacing"
     \/ /\ i >= N
        /\ pc' = "finally"
        /\ UNCHANGED <<i, out_path, log>>
  /\ elapsed' = 0
  /\ captcha' = "none"
  /\ navs' = 0
  /\ UNCHANGED <<config, attempts, backoff, exc, session, page, Outputs,
                 exitStatus, quitCount>>

\* lines 191-196: the pacing sleep, then attempts, backoff = 0, 3
Pacing ==
  /\ pc = "pacing"
  /\ log' = LogAt("pacing", log[i].pacing + 1)
  /\ attempts' = 0
  /\ backoff' = BackoffBase
  /\ pc' = "while"
  /\ UNCHANGED <<config, i, out_path, exc, session, page, AttemptLocals,
                 Outputs,
                 exitStatus, quitCount>>

\* lines 197-198: while attempts < 3: attempts += 1
While ==
  /\ pc = "while"
  /\ \/ /\ ShouldAttempt(attempts)
        /\ attempts' = attempts + 1
        /\ log' = LogAt("attempts", log[i].attempts + 1)
        /\ pc' = "get"
     \/ /\ ~ShouldAttempt(attempts)
        /\ pc' = "cooldown"
        /\ UNCHANGED <<attempts, log>>
  /\ elapsed' = 0
  /\ captcha' = "none"
  /\ navs' = 0
  /\ UNCHANGED <<config, i, out_path, backoff, exc, session, page, Outputs,
                 exitStatus,
                 quitCount>>

\* driver.get(url): the page the server answers with, or WebDriverException
Navigate(okPc) ==
  /\ session = "open"
  /\ navs' = navs + 1
  /\ \/ /\ page' \in PageKinds
        /\ pc' = okPc
        /\ UNCHANGED exc
     \/ /\ exc' = "WebDriverException"
        /\ pc' = "raise"
        /\ UNCHANGED page

\* line 200 and the left operand of line 202
Get ==
  /\ pc = "get"
  /\ Navigate(IF ChecksCaptcha(headful) THEN "captcha_find" ELSE "settle")
  /\ UNCHANGED <<config, i, out_path, attempts, backoff, session, elapsed,
                 captcha,
                 Outputs, exitStatus, quitCount, log>>

\* lines 159-168 and 179-181: the first look for challenge markers
CaptchaFind ==
  /\ pc = "captcha_find"
  /\ session = "open"
  /\ \/ /\ MarkersPresent(page)
        /\ captcha' = "waiting"
        /\ elapsed' = 0
        /\ pc' = "captcha_loop"
     \/ /\ ~MarkersPresent(page)
        /\ captcha' = "absent"
        /\ pc' = "settle"
        /\ UNCHANGED elapsed
     \/ /\ captcha' = "error"
        /\ pc' = "settle"
        /\ UNCHANGED elapsed
  /\ UNCHANGED <<config, i, out_path, attempts, backoff, exc, session, page,
                 navs,
                 Outputs, exitStatus, quitCount, log>>

\* lines 169-170 and 177-178: the poll loop's test and its sleep, during
\* which the challenge may get solved
CaptchaLoop ==
  /\ pc = "captcha_loop"
  /\ \/ /\ PollMore(elapsed, captcha_timeout)
        /\ elapsed' = Elapse(elapsed)
        /\ page' \in {page, "content"}
        /\ pc' = "captcha_poll"
        /\ UNCHANGED captcha
     \/ /\ ~PollMore(elapsed, captcha_timeout)
        /\ captcha' = "timeout"
        /\ pc' = "reload"
        /\ UNCHANGED <<elapsed, page>>
  /\ UNCHANGED <<config, i, out_path, attempts, backoff, exc, session, navs,
                 Outputs,
                 exitStatus, quitCount, log>>

\* lines 171-176 and 179-181: the look for markers after each sleep
CaptchaPoll ==
  /\ pc = "captcha_poll"
  /\ session = "open"
  /\ \/ /\ ~MarkersPresent(page)
        /\ captcha' = "cleared"
        /\ pc' = "reload"
     \/ /\ MarkersPresent(page)
        /\ pc' = "captcha_loop"
        /\ UNCHANGED captcha
     \/ /\ captcha' = "error"
        /\ pc' = "settle"
  /\ UNCHANGED <<config, i, out_path, attempts, backoff, exc, session, page,
                 elapsed,
                 navs, Outputs, exitStatus, quitCount, log>>

\* line 204: driver.get(url) after maybe_wait_for_captcha returned True
Reload ==
  /\ pc = "reload"
  /\ Navigate("settle")
  /\ UNCHANGED <<config, i, out_path, attempts, backoff, session, elapsed,
                 captcha,
                 Outputs, exitStatus, quitCount, log>>

\* line 207: the settle sleep
Settle ==
  /\ pc = "settle"
  /\ pc' = "p_get"
  /\ UNCHANGED <<config, i, out_path, attempts, backoff, exc, session, page,
                 AttemptLocals, Outputs, exitStatus, quitCount, log>>

(* ------------------------ print_one_page_pdf --------------------------- *)
PGetNoNavigate ==
  /\ pc = "p_get"
  /\ pc' = "p_media"
  /\ UNCHANGED <<config, i, out_path, attempts, backoff, exc, session, page,
                 AttemptLocals, Outputs, exitStatus, quitCount, log>>

\* lines 50-52
PGet ==
  /\ pc = "p_get"
  /\ Navigate("p_media")
  /\ UNCHANGED <<config, i, out_path, attempts, backoff, session, elapsed,
                 captcha,
                 Outputs, exitStatus, quitCount, log>>

\* a call on the session that leaves the page alone
SessionCall(okPc) ==
  /\ session = "open"
  /\ \/ /\ pc' = okPc
        /\ UNCHANGED exc
     \/ /\ exc' = "WebDriverException"
        /\ pc' = "raise"

\* line 55: Emulation.setEmulatedMedia
PMedia ==
  /\ pc = "p_media"
  /\ SessionCall("p_measure")
  /\ UNCHANGED <<config, i, out_path, attempts, backoff, session, page,
                 AttemptLocals,
                 Outputs, exitStatus, quitCount, log>>

\* line 58: compute_full_height_inches
PMeasure ==
  /\ pc = "p_measure"
  /\ SessionCall("p_print")
  /\ UNCHANGED <<config, i, out_path, attempts, backoff, session, page,
                 AttemptLocals,
                 Outputs, exitStatus, quitCount, log>>

\* lines 60-72: Page.printToPDF
PPrint ==
  /\ pc = "p_print"
  /\ SessionCall("p_write")
  /\ UNCHANGED <<config, i, out_path, attempts, backoff, session, page,
                 AttemptLocals,
                 Outputs, exitStatus, quitCount, log>>

\* lines 60-73: the PDF printed for the URL, one page
Printed == << [url |-> url] >>

\* lines 73-74 and 216-217: write_bytes, then the path is recorded and the
\* retry loop left; or write_bytes raises OSError, with the file untouched
\* or left truncated
PWrite ==
  /\ pc = "p_write"
  /\ \/ /\ files' = WriteFile(files, out_path, Printed)
        /\ writes' = Bump(writes, out_path)
        /\ pdf_paths' = Record(pdf_paths, out_path)
        /\ pc' = "cooldown"
        /\ UNCHANGED exc
     \/ /\ exc' = "OSError_write"
        /\ pc' = "raise"
        /\ \/ UNCHANGED <<files, writes>>
           \/ /\ files' = WriteFile(files, out_path, <<>>)
              /\ writes' = Bump(writes, out_path)
        /\ UNCHANGED pdf_paths
  /\ UNCHANGED <<config, i, out_path, attempts, backoff, session, page,
                 AttemptLocals,
                 merged, exitStatus, quitCount, log>>

RetryFromPacing == "pacing"

\* line 197: after the except clause control is back at the while test,
\* below the pacing sleep of lines 191-193
RetryFrom == "while"

\* lines 218-221 and 228: an exception inside the try of the retry loop is
\* handled when it is a WebDriverException (backoff sleep, backoff doubled)
\* and otherwise leaves the for loop through the finally clause
Raise ==
  /\ pc = "raise"
  /\ \/ /\ Caught(exc)
        /\ log' = LogAt("backoffs", Append(log[i].backoffs, backoff))
        /\ backoff' = NextBackoff(backoff)
        /\ exc' = "none"
        /\ pc' = RetryFrom
     \/ /\ ~Caught(exc)
        /\ pc' = "finally"
        /\ UNCHANGED <<log, backoff, exc>>
  /\ UNCHANGED <<config, i, out_path, attempts, session, page, AttemptLocals,
                 Outputs,
                 exitStatus, quitCount>>

\* lines 224-226: the cooldown after a burst
Cooldown ==
  /\ pc = "cooldown"
  /\ \/ /\ CooldownDue(i, N, rest_every)
        /\ log' = LogAt("cooldowns", log[i].cooldowns + 1)
     \/ /\ ~CooldownDue(i, N, rest_every)
        /\ UNCHANGED log
  /\ pc' = "for"
  /\ UNCHANGED <<config, i, out_path, attempts, backoff, exc, session, page,
                 AttemptLocals, Outputs, exitStatus, quitCount>>

FinallyQuitOnSuccessOnly ==
  /\ pc = "finally"
  /\ \/ /\ exc = "none"
        /\ session' = "closed"
        /\ quitCount' = quitCount + 1
        /\ pc' = "post"
        /\ UNCHANGED exitStatus
     \/ /\ exc # "none"
        /\ exitStatus' = "traceback"
        /\ pc' = "done"
        /\ UNCHANGED <<session, quitCount>>
  /\ UNCHANGED <<config, i, out_path, attempts, backoff, exc, page,
                 AttemptLocals,
                 Outputs, log>>

FinallyNoQuit ==
  /\ pc = "finally"
  /\ \/ /\ exc = "none"
        /\ pc' = "post"
        /\ UNCHANGED exitStatus
     \/ /\ exc # "none"
        /\ exitStatus' = "traceback"
        /\ pc' = "done"
  /\ UNCHANGED <<config, i, out_path, attempts, backoff, exc, session, page,
                 AttemptLocals, Outputs, quitCount, log>>

\* lines 228-229: driver.quit(), then the exception in flight goes on
Finally ==
  /\ pc = "finally"
  /\ session' = "closed"
  /\ quitCount' = quitCount + 1
  /\ \/ /\ exc = "none"
        /\ pc' = "post"
        /\ UNCHANGED exitStatus
     \/ /\ exc # "none"
        /\ exitStatus' = "traceback"
        /\ pc' = "done"
  /\ UNCHANGED <<config, i, out_path, attempts, backoff, exc, page,
                 AttemptLocals,
                 Outputs, log>>

\* lines 230-237: nothing to merge, or merge_pdfs (which may fail to write)
Post ==
  /\ pc = "post"
  /\ \/ /\ NothingToMerge(pdf_paths)
        /\ exitStatus' = "2"
        /\ UNCHANGED <<merged, exc>>
     \/ /\ ~NothingToMerge(pdf_paths)
        /\ merged' = [state |-> "written",
                      pages |-> MergePages(pdf_paths, files)]
        /\ exitStatus' = "0"
        /\ UNCHANGED exc
     \/ /\ ~NothingToMerge(pdf_paths)
        /\ merged' \in {merged, [state |-> "partial", pages |-> <<>>]}
        /\ exc' = "OSError_merge"
        /\ exitStatus' = "traceback"
  /\ pc' = "done"
  /\ UNCHANGED <<config, i, out_path, attempts, backoff, session, page,
                 AttemptLocals,
                 pdf_paths, files, writes, quitCount, log>>

Next ==
  \/ Start
  \/ ForNext
  \/ Pacing
  \/ While
  \/ Get
  \/ CaptchaFind
  \/ CaptchaLoop
  \/ CaptchaPoll
  \/ Reload
  \/ Settle
  \/ PGet
  \/ PMedia
  \/ PMeasure
  \/ PPrint
  \/ PWrite
  \/ Raise
  \/ Cooldown
  \/ Finally
  \/ Post

Spec == Init /\ [][Next]_vars

\* The text of a URL plays no part in the control flow of main(): the runs
\* checked for termination list one URL text, any number of times.
InitFair == Init /\ \A k \in 1..Len(urls) : urls[k] = <<"a", "&", "b">>

\* main() is one sequential thread: when every call it makes returns, the
\* step it is at is eventually taken
SpecFair == InitFair /\ [][Next]_vars /\ WF_vars(Next)

(* ------------------------- vocabulary of the claims -------------------- *)
Positions == 1..N

\* the path named on the progress line of position k
PathOf(k) == log[k].path

RecordedAt(k) == {j \in 1..Len(pdf_paths) : pdf_paths[j] = PathOf(k)}

Recorded(k) == RecordedAt(k) # {}

FailedAttempts(k) == Len(log[k].backoffs)

Exhausted(k) == log[k].attempts = MaxAttempts /\ FailedAttempts(k) = MaxAttempts

\* the for loop was left because an exception passed through it
LoopAborted == exc = "OSError_write"

\* the for loop ran to its end
LoopCompleted == pc \in {"finally", "post", "done"} /\ ~LoopAborted

\* the body of the for loop has been left for position k without an exception
Processed(k) == k < i \/ (k = i /\ (pc = "for" \/ LoopCompleted))

Pow2(n) == IF n = 0 THEN 1 ELSE IF n = 1 THEN 2 ELSE IF n = 2 THEN 4 ELSE 8

\* the number a path starts with, up to its first "_"
DigitVal(c) == CHOOSE d \in 0..9 : DigitChars[d + 1] = c

RECURSIVE ParseNat(_)
ParseNat(s) ==
  IF s = <<>> THEN 0
  ELSE ParseNat(SubSeq(s, 1, Len(s) - 1)) * 10 + DigitVal(s[Len(s)])

OrdinalOf(path) ==
  LET us == CHOOSE k \in 1..Len(path) :
              path[k] = "_" /\ \A j \in 1..(k - 1) : path[j] # "_"
  IN  ParseNat(SubSeq(path, 1, us - 1))

(* -------------------------------- C1 ----------------------------------- *)
\* C1: once acquired, the session is closed exactly once on every way out
\* of the URL loop: never before the loop is left, exactly once after it,
\* whether the loop ended normally or an exception passed through it.
C1_ClosedExactlyOnce ==
  /\ quitCount <= 1
  /\ (session = "closed") <=> (quitCount = 1)
  /\ pc \in {"post", "done"} /\ ~NoUrls(urls) => quitCount = 1
  /\ pc \notin {"post", "done"} => quitCount = 0
  /\ session = "none" => pc = "start" \/ NoUrls(urls)

\* a run left by an exception out of the loop, after a failed URL before it
C1_Witness ==
  /\ pc = "done"
  /\ LoopAborted
  /\ i = 2
  /\ Exhausted(1)
  /\ quitCount = 1

(* -------------------------------- C2 ----------------------------------- *)
\* C2: per URL position: at most 3 attempts; the backoff sleeps made so far
\* are b, 2b, 4b, ... with b the base, whatever happened to earlier URLs;
\* a position all of whose attempts failed had exactly 3 attempts, sleeps
\* b, 2b, 4b and no artifact; a recorded position has exactly one artifact
\* and no attempt after the successful one; never two artifacts.
C2_RetryPolicy ==
  \A k \in Positions :
    /\ log[k].attempts <= MaxAttempts
    /\ FailedAttempts(k) <= log[k].attempts
    /\ \A j \in 1..FailedAttempts(k) :
         log[k].backoffs[j] = BackoffBase * Pow2(j - 1)
    /\ Cardinality(RecordedAt(k)) <= 1
    /\ Recorded(k) => FailedAttempts(k) = log[k].attempts - 1
    /\ Processed(k) /\ ~Recorded(k) =>
         /\ log[k].attempts = MaxAttempts
         /\ log[k].backoffs = <<BackoffBase, 2 * BackoffBase, 4 * BackoffBase>>
    /\ Processed(k) /\ Recorded(k) =>
         /\ log[k].attempts \in 1..MaxAttempts
         /\ Cardinality(RecordedAt(k)) = 1

\* URL 1 exhausted with sleeps 3, 6, 12; URL 2 fails once, then succeeds
C2_Witness ==
  /\ pc = "done"
  /\ N = 2
  /\ log[1].backoffs = <<3, 6, 12>> /\ log[1].attempts = 3 /\ ~Recorded(1)
  /\ log[2].backoffs = <<3>> /\ log[2].attempts = 2 /\ Recorded(2)

(* -------------------------------- C3 ----------------------------------- *)
\* C3: a WebDriverException never gets past the handler of the retry loop,
\* so it never ends the run; an exhausted URL has no artifact; and a loop
\* that no other exception left has given every position its pacing sleep
\* and between 1 and 3 attempts.
C3_SkipWithoutAbort ==
  /\ exc = "WebDriverException" => pc = "raise"
  /\ exitStatus = "traceback" => exc \in {"OSError_write", "OSError_merge"}
  /\ \A k \in Positions : Exhausted(k) => ~Recorded(k)
  /\ \A k \in Positions :
       Processed(k) => log[k].pacing = 1 /\ log[k].attempts \in 1..MaxAttempts
  /\ LoopCompleted => i = N /\ \A k \in Positions : Processed(k)

\* URL 1 exhausted, URL 2 captured, normal end
C3_Witness ==
  /\ pc = "done"
  /\ exitStatus = "0"
  /\ N = 2
  /\ Exhausted(1)
  /\ Recorded(2)
  /\ log[2].pacing = 1

(* -------------------------------- C4 ----------------------------------- *)
\* C4: the recorded paths are in strictly ascending ordinal order, the path
\* with ordinal k is the one of position k and holds the page of urls[k]
\* (also when earlier positions were skipped), and the merged document has
\* the pages of the recorded artifacts in that order.
C4_AscendingOrdinals ==
  /\ \A j \in 1..Len(pdf_paths) :
       LET k == OrdinalOf(pdf_paths[j])
       IN  /\ k \in 1..i
           /\ pdf_paths[j] = PathOf(k)
           /\ files[pdf_paths[j]] = << [url |-> urls[k]] >>
  /\ \A j \in 1..Len(pdf_paths) : \A j2 \in (j + 1)..Len(pdf_paths) :
       OrdinalOf(pdf_paths[j]) < OrdinalOf(pdf_paths[j2])
  /\ i >= 1 => OrdinalOf(out_path) = i /\ PathOf(i) = out_path
  /\ pc = "cooldown" /\ Recorded(i) => pdf_paths[Len(pdf_paths)] = out_path
  /\ merged.state = "written" =>
       merged.pages =
         [j \in 1..Len(pdf_paths) |-> [url |-> urls[OrdinalOf(pdf_paths[j])]]]

\* two different URLs, both captured, merged in sequence order
C4_Witness ==
  /\ merged.state = "written"
  /\ N = 2
  /\ urls[1] # urls[2]
  /\ Len(pdf_paths) = 2
  /\ merged.pages = << [url |-> urls[1]], [url |-> urls[2]] >>

(* -------------------------------- C5 ----------------------------------- *)
\* C5: the run ends with status 1 exactly when there are no URLs (before a
\* session exists), with status 2 exactly when the loop ran to its end over
\* a non-empty sequence and recorded nothing (nothing merged), and with
\* status 0 only after the merged document was written; when no unexpected
\* exception ended the run the merged document is written iff an artifact
\* was recorded.
C5_RunOutcomes ==
  /\ (pc = "done") <=> (exitStatus # "running")
  /\ exitStatus \in {"running", "0", "1", "2", "traceback"}
  /\ (exitStatus = "1") <=> (pc = "done" /\ NoUrls(urls))
  /\ exitStatus = "1" => session = "none" /\ merged.state = "absent"
  /\ (exitStatus = "2") <=>
       (pc = "done" /\ ~NoUrls(urls) /\ exc = "none" /\ pdf_paths = <<>>)
  /\ exitStatus = "2" =>
       /\ merged.state = "absent"
       /\ i = N
       /\ session = "closed"
       /\ \A k \in Positions : Exhausted(k)
  /\ (exitStatus = "0") <=>
       (pc = "done" /\ exc = "none" /\ pdf_paths # <<>>)
  /\ exitStatus = "0" => merged.state = "written"
  /\ pc = "done" /\ exitStatus # "traceback" =>
       ((merged.state = "written") <=> (pdf_paths # <<>>))
  /\ merged.state = "written" => pdf_paths # <<>>

\* two URLs, both exhausted: the later failure status
C5_Witness ==
  /\ exitStatus = "2"
  /\ N = 2
  /\ merged.state = "absent"

(* -------------------------------- C6 ----------------------------------- *)
\* C6: the CAPTCHA wait sleeps in steps of the poll interval and for less
\* than the timeout plus one interval; it raises nothing; when the markers
\* were seen gone the next thing is the reload; when the timeout passed the
\* attempt goes on (reload, settle, capture) and can only fail in a later
\* browser call.
C6_BoundedCaptchaWait ==
  /\ elapsed % PollInterval = 0
  /\ elapsed > 0 => elapsed < captcha_timeout + PollInterval
  /\ pc \in {"captcha_loop", "captcha_poll"} =>
       captcha = "waiting" /\ exc = "none" /\ headful
  /\ captcha = "waiting" => pc \in {"captcha_loop", "captcha_poll"}
  /\ captcha = "cleared" =>
       \/ pc = "reload" /\ ~MarkersPresent(page) /\ exc = "none"
       \/ navs >= 2
  /\ captcha = "timeout" =>
       /\ elapsed >= captcha_timeout
       /\ \/ pc = "reload" /\ exc = "none"
          \/ navs >= 2
  /\ captcha \in {"cleared", "timeout"} =>
       pc \notin {"get", "captcha_find", "captcha_loop", "captcha_poll"}

\* the timeout passed with the challenge unsolved and the capture succeeded
C6_Witness ==
  /\ captcha = "timeout"
  /\ elapsed > captcha_timeout
  /\ captcha_timeout > 0
  /\ pc = "cooldown"
  /\ Recorded(i)

(* -------------------------------- C7 ----------------------------------- *)
\* C7: without --headful no attempt looks for challenge markers, waits for
\* a CAPTCHA or reloads: an attempt navigates at most twice (line 200 and
\* line 50), and a successful one exactly twice.
C7_HeadlessNeverChecks ==
  ~headful =>
    /\ captcha = "none"
    /\ elapsed = 0
    /\ pc \notin {"captcha_find", "captcha_loop", "captcha_poll", "reload"}
    /\ navs <= 2
    /\ pc = "cooldown" /\ Recorded(i) => navs = 2

\* headless: the page printed and recorded at the first attempt is a
\* challenge page
C7_Witness ==
  /\ ~headful
  /\ pc = "cooldown"
  /\ Recorded(i)
  /\ MarkersPresent(page)
  /\ log[i].attempts = 1

(* -------------------------------- C8 ----------------------------------- *)
\* C8: at most one cooldown per position, only after a position that is a
\* multiple of the burst size and not the last one, and after every such
\* position once its loop body is over, with or without an artifact.
C8_CooldownRule ==
  \A k \in Positions :
    /\ log[k].cooldowns <= 1
    /\ log[k].cooldowns = 1 => k % rest_every = 0 /\ k < N
    /\ Processed(k) =>
         ((log[k].cooldowns = 1) <=> (k % rest_every = 0 /\ k < N))

\* burst size 1, two URLs: a cooldown after the (skipped) first, none after
\* the last
C8_Witness ==
  /\ pc = "done"
  /\ N = 2
  /\ rest_every = 1
  /\ Exhausted(1)
  /\ log[1].cooldowns = 1
  /\ log[2].cooldowns = 0

(* -------------------------------- C9 ----------------------------------- *)
\* C9: every file in the output directory is the file of a position that
\* was recorded (or the one write_bytes itself failed on); no file is
\* written twice; while a WebDriverException is in flight the current
\* position has no file; distinct positions have distinct paths.
C9_WrittenOnlyOnSuccess ==
  /\ \A p \in DOMAIN files :
       /\ \E k \in 1..i : p = PathOf(k)
       /\ \/ \E j \in 1..Len(pdf_paths) : pdf_paths[j] = p
          \/ LoopAborted /\ p = out_path /\ files[p] = <<>>
       /\ writes[p] = 1
  /\ DOMAIN writes = DOMAIN files
  /\ exc = "WebDriverException" => out_path \notin DOMAIN files
  /\ pc \in {"get", "captcha_find", "captcha_loop", "captcha_poll", "reload",
             "settle", "p_get", "p_media", "p_measure", "p_print", "p_write"}
       => out_path \notin DOMAIN files
  /\ \A k \in 1..i : \A k2 \in 1..i : k # k2 => PathOf(k) # PathOf(k2)
  /\ i >= 1 => out_path = PathOf(i)

\* the same URL twice, both captured: two files
C9_Witness ==
  /\ pc = "done"
  /\ N = 2
  /\ urls[1] = urls[2]
  /\ Len(pdf_paths) = 2
  /\ Cardinality(DOMAIN files) = 2
  /\ log[1].attempts = 2

(* -------------------------------- C10 ---------------------------------- *)
C10_Inv ==
  LoopAborted =>
    /\ pc \in {"raise", "finally", "done"}
    /\ merged.state = "absent"
    /\ ~Recorded(i)
    /\ FailedAttempts(i) = log[i].attempts - 1
    /\ \A k \in Positions : k > i => log[k] = EmptyLog
    /\ pc = "done" =>
         quitCount = 1 /\ session = "closed" /\ exitStatus = "traceback"

C10_Step ==
  LoopAborted =>
    /\ LoopAborted'
    /\ log' = log
    /\ i' = i
    /\ pdf_paths' = pdf_paths
    /\ merged' = merged

\* C10: an exception other than WebDriverException raised in the loop stays
\* in flight until the run ends: no backoff, no further attempt, no later
\* URL touched, nothing merged; and the session is closed by the time the
\* run ends with it.
C10_UnexpectedPropagates == []C10_Inv /\ [][C10_Step]_vars

\* write_bytes failed on the first of two URLs and the run is over
C10_Witness ==
  /\ pc = "done"
  /\ LoopAborted
  /\ N = 2
  /\ i = 1
  /\ log[2] = EmptyLog
  /\ quitCount = 1

(***************************************************************************)
(* The functions of the module called on their own.  A call starts at      *)
(* pc = "call" with its arguments in `call` and ends at pc = "returned"    *)
(* with the result in `ret`; main() does not run.                          *)
(***************************************************************************)
NotInMain ==
  /\ urls = <<>>
  /\ headful = FALSE
  /\ rest_every = 1
  /\ captcha_timeout = 0
  /\ i = 0
  /\ attempts = 0
  /\ backoff = 0
  /\ out_path = <<>>
  /\ exc = "none"
  /\ session = "none"
  /\ page = "blank"
  /\ elapsed = 0
  /\ captcha = "none"
  /\ navs = 0
  /\ pdf_paths = <<>>
  /\ files = [p \in {} |-> <<>>]
  /\ writes = [p \in {} |-> 0]
  /\ merged = [state |-> "absent", pages |-> <<>>]
  /\ exitStatus = "running"
  /\ quitCount = 0
  /\ log = <<>>

MainVars ==
  <<urls, headful, rest_every, captcha_timeout, i, attempts, backoff, out_path,
    exc, session, page, elapsed, captcha, navs, pdf_paths, files, writes,
    merged, exitStatus, quitCount, log>>

Returned == pc = "returned"

(* ----------------------- build_urls_from_range ------------------------- *)
\* most query parameters of a base URL explored
MaxParams == 2
\* largest --start-to explored
MaxTo == 2
\* largest --step explored
MaxStep == 2

StartName == <<"s", "t", "a", "r", "t">>

\* first position of a character of cs in s, 0 when there is none
IndexOfAny(s, cs) ==
  IF \E k \in 1..Len(s) : s[k] \in cs
  THEN CHOOSE k \in 1..Len(s) :
         s[k] \in cs /\ \A j \in 1..(k - 1) : s[j] \notin cs
  ELSE 0

From(s, k) == SubSeq(s, k, Len(s))

Upto(s, k) == SubSeq(s, 1, k)

\* str.split(c)
RECURSIVE SplitOn(_, _)
SplitOn(s, c) ==
  LET k == IndexOfAny(s, {c})
  IN  IF k = 0 THEN <<s>>
      ELSE <<Upto(s, k - 1)>> \o SplitOn(From(s, k + 1), c)

RECURSIVE Join(_, _)
Join(parts, c) ==
  IF parts = <<>> THEN <<>>
  ELSE IF Len(parts) = 1 THEN parts[1]
  ELSE parts[1] \o <<c>> \o Join(Tail(parts), c)

SchemeChars == {"h", "t", "p", "a", "b", "q", "e", "s", "r", "f", "+", "-", "."}

\* urllib.parse.urlparse on a URL without ";"
urlparse(u) ==
  LET colon     == IndexOfAny(u, {":"})
      hasScheme == colon > 1 /\ \A k \in 1..(colon - 1) : u[k] \in SchemeChars
      scheme    == IF hasScheme THEN Upto(u, colon - 1) ELSE <<>>
      rest1     == IF hasScheme THEN From(u, colon + 1) ELSE u
      hasNet    == Len(rest1) >= 2 /\ rest1[1] = "/" /\ rest1[2] = "/"
      afterSl   == From(rest1, 3)
      d         == IndexOfAny(afterSl, {"/", "?", "#"})
      netloc    == IF ~hasNet THEN <<>>
                   ELSE IF d = 0 THEN afterSl ELSE Upto(afterSl, d - 1)
      rest2     == IF ~hasNet THEN rest1
                   ELSE IF d = 0 THEN <<>> ELSE From(afterSl, d)
      h         == IndexOfAny(rest2, {"#"})
      fragment  == IF h = 0 THEN <<>> ELSE From(rest2, h + 1)
      rest3     == IF h = 0 THEN rest2 ELSE Upto(rest2, h - 1)
      qm        == IndexOfAny(rest3, {"?"})
      query     == IF qm = 0 THEN <<>> ELSE From(rest3, qm + 1)
      path      == IF qm = 0 THEN rest3 ELSE Upto(rest3, qm - 1)
  IN  [scheme |-> scheme, netloc |-> netloc, path |-> path, params |-> <<>>,
       query |-> query, fragment |-> fragment]

UsesNetloc == { <<"h", "t", "t", "p">> }

\* urllib.parse.urlunparse
urlunparse(scheme, netloc, path, params, query, fragment) ==
  LET u0 == IF params = <<>> THEN path ELSE path \o <<";">> \o params
      slashes == Len(u0) >= 2 /\ u0[1] = "/" /\ u0[2] = "/"
      u1 == IF netloc # <<>> \/ (scheme \in UsesNetloc /\ ~slashes)
            THEN <<"/", "/">> \o netloc \o
                 (IF u0 # <<>> /\ u0[1] # "/" THEN <<"/">> \o u0 ELSE u0)
            ELSE u0
      u2 == IF scheme # <<>> THEN scheme \o <<":">> \o u1 ELSE u1
      u3 == IF query # <<>> THEN u2 \o <<"?">> \o query ELSE u2
  IN  IF fragment # <<>> THEN u3 \o <<"#">> \o fragment ELSE u3

\* urllib.parse.unquote after "+" became " "; of the escapes only %20 occurs
RECURSIVE unquote_plus(_)
unquote_plus(s) ==
  IF s = <<>> THEN <<>>
  ELSE IF Head(s) = "+" THEN <<" ">> \o unquote_plus(Tail(s))
  ELSE IF Len(s) >= 3 /\ Upto(s, 3) = <<"%", "2", "0">>
       THEN <<" ">> \o unquote_plus(From(s, 4))
  ELSE <<Head(s)>> \o unquote_plus(Tail(s))

\* urllib.parse.quote_plus on letters, digits, "-", "." and " "
RECURSIVE quote_plus(_)
quote_plus(s) ==
  IF s = <<>> THEN <<>>
  ELSE IF Head(s) = " " THEN <<"+">> \o quote_plus(Tail(s))
  ELSE <<Head(s)>> \o quote_plus(Tail(s))

\* urllib.parse.parse_qsl: the decoded (name, value) pairs in order; a piece
\* without "=" or with an empty value is dropped unless keep_blank_values
RECURSIVE PairsOf(_, _)
PairsOf(pieces, keep_blank) ==
  IF pieces = <<>> THEN <<>>
  ELSE LET nv   == Head(pieces)
           eq   == IndexOfAny(nv, {"="})
           name == IF eq = 0 THEN nv ELSE Upto(nv, eq - 1)
           val  == IF eq = 0 THEN <<>> ELSE From(nv, eq + 1)
           rest == PairsOf(Tail(pieces), keep_blank)
       IN  IF nv = <<>> THEN rest
           ELSE IF eq = 0 /\ ~keep_blank THEN rest
           ELSE IF val = <<>> /\ ~keep_blank THEN rest
           ELSE << [name |-> unquote_plus(name), value |-> unquote_plus(val)] >>
                \o rest

parse_qsl(qs, keep_blank) == PairsOf(SplitOn(qs, "&"), keep_blank)

\* urllib.parse.parse_qs: a dict name -> list of values, in the order the
\* names first occur; blank values are not kept
RECURSIVE DictOf(_, _)
DictOf(pairs, d) ==
  IF pairs = <<>> THEN d
  ELSE LET pr == Head(pairs)
           at == {k \in 1..Len(d) : d[k].name = pr.name}
       IN  IF at = {}
           THEN DictOf(Tail(pairs),
                       Append(d, [name |-> pr.name, values |-> <<pr.value>>]))
           ELSE DictOf(Tail(pairs),
                       [k \in 1..Len(d) |->
                          IF k \in at
                          THEN [d[k] EXCEPT !.values = Append(@, pr.value)]
                          ELSE d[k]])

parse_qs(qs) == DictOf(parse_qsl(qs, FALSE), <<>>)

DictSetAppends(d, name, vals) == Append(d, [name |-> name, values |-> vals])

\* q_mod[name] = vals on a dict: replaced in place, or added at the end
DictSet(d, name, vals) ==
  IF \E k \in 1..Len(d) : d[k].name = name
  THEN [k \in 1..Len(d) |->
          IF d[k].name = name THEN [d[k] EXCEPT !.values = vals] ELSE d[k]]
  ELSE Append(d, [name |-> name, values |-> vals])

\* str(s) of an int
Str(n) == IF n < 0 THEN <<"-">> \o Digits(0 - n) ELSE Digits(n)

\* urlencode({k: v[0] ...}): name=first value, joined by "&"
urlencode_first(d) ==
  Join([k \in 1..Len(d) |->
          quote_plus(d[k].name) \o <<"=">> \o quote_plus(d[k].values[1])],
       "&")

RECURSIVE RangeSeqStopIncluded(_, _, _)
RangeSeqStopIncluded(a, stop, step) ==
  IF a > stop THEN <<>> ELSE <<a>> \o RangeSeqStopIncluded(a + step, stop, step)

\* range(start_from, start_to + 1, step) for step >= 1
RECURSIVE RangeSeq(_, _, _)
RangeSeq(a, stop, step) ==
  IF a >= stop THEN <<>> ELSE <<a>> \o RangeSeq(a + step, stop, step)

\* lines 83-86: the URL for one value s
UrlFor(parsed, q, s) ==
  LET q_mod     == DictSet(q, StartName, <<Str(s)>>)
      new_query == urlencode_first(q_mod)
  IN  urlunparse(parsed.scheme, parsed.netloc, parsed.path, parsed.params,
                 new_query, parsed.fragment)

build_urls_from_range(base_url, start_from, start_to, step) ==
  LET parsed == urlparse(base_url)
      q      == parse_qs(parsed.query)
      ss     == RangeSeq(start_from, start_to + 1, step)
  IN  [j \in 1..Len(ss) |-> UrlFor(parsed, q, ss[j])]

\* the base URLs explored: http://a/p, a query of up to MaxParams
\* parameters, with or without a fragment
ParamNames == { <<"q">>, <<"e">>, StartName }

ParamValues == { <<>>, <<"7">>, <<"a", "%", "2", "0", "b">> }

ParamPieces == { n \o <<"=">> \o v : n \in ParamNames, v \in ParamValues }

Queries ==
  { Join(ps, "&") : ps \in UNION { [1..n -> ParamPieces] : n \in 0..MaxParams } }

BaseUrls ==
  { <<"h", "t", "t", "p", ":", "/", "/", "a", "/", "p">>
      \o (IF qs = <<>> THEN <<>> ELSE <<"?">> \o qs) \o fr :
    qs \in Queries, fr \in { <<>>, <<"#", "f">> } }

RangeCalls ==
  [fn : {"build_urls_from_range"}, base_url : BaseUrls,
   start_from : (0 - 1)..1, start_to : 0..MaxTo, step : 1..MaxStep]

InitRange ==
  /\ NotInMain
  /\ pc = "call"
  /\ call \in RangeCalls
  /\ ret = <<>>

\* line 129: urls = build_urls_from_range(...)
CallRange ==
  /\ pc = "call"
  /\ call.fn = "build_urls_from_range"
  /\ ret' = build_urls_from_range(call.base_url, call.start_from,
                                  call.start_to, call.step)
  /\ pc' = "returned"
  /\ UNCHANGED <<MainVars, call>>

SpecRange == InitRange /\ [][CallRange]_vars

(* ------------------- vocabulary of the claims on URLs ------------------ *)
\* every parameter of a URL's query, blank ones included, decoded, in order
QueryPairs(u) == parse_qsl(urlparse(u).query, TRUE)

IsStart(pr) == pr.name = StartName

IsOther(pr) == pr.name # StartName

StartPairs(u) == SelectSeq(QueryPairs(u), IsStart)

OtherPairs(u) == SelectSeq(QueryPairs(u), IsOther)

\* int(s) of a decimal string
ParseInt(s) ==
  IF s # <<>> /\ Head(s) = "-" THEN 0 - ParseNat(Tail(s)) ELSE ParseNat(s)

StartOf(u) == ParseInt(StartPairs(u)[1].value)

(* -------------------------------- C11 ---------------------------------- *)
\* C11: for from <= to and step >= 1 the result has floor((to-from)/step)+1
\* URLs, the j-th with start = from + (j-1)*step, strictly ascending and
\* never above `to`.
C11_RangeCountAndOrder ==
  Returned /\ call.fn = "build_urls_from_range"
    /\ call.start_from <= call.start_to /\ call.step >= 1 =>
      /\ Len(ret) = ((call.start_to - call.start_from) \div call.step) + 1
      /\ \A j \in 1..Len(ret) :
           /\ StartPairs(ret[j]) # <<>>
           /\ StartOf(ret[j]) = call.start_from + (j - 1) * call.step
           /\ StartOf(ret[j]) <= call.start_to
      /\ \A j \in 1..(Len(ret) - 1) : StartOf(ret[j]) < StartOf(ret[j + 1])

\* from -1 to 2 by 2: floor(3/2)+1 = 2 URLs, start = -1 and 1
C11_Witness ==
  /\ Returned
  /\ call.fn = "build_urls_from_range"
  /\ call.start_from = 0 - 1 /\ call.start_to = 2 /\ call.step = 2
  /\ Len(ret) = 2
  /\ StartOf(ret[1]) = 0 - 1
  /\ StartOf(ret[2]) = 1

(* -------------------------------- C12 ---------------------------------- *)
\* C12: every generated URL has the scheme, host, path and fragment of the
\* base URL and, apart from `start`, the same query parameters with the
\* same values in the same order, repeated and empty-valued ones included.
C12_OnlyStartDiffers ==
  Returned /\ call.fn = "build_urls_from_range" =>
    \A j \in 1..Len(ret) :
      /\ urlparse(ret[j]).scheme = urlparse(call.base_url).scheme
      /\ urlparse(ret[j]).netloc = urlparse(call.base_url).netloc
      /\ urlparse(ret[j]).path = urlparse(call.base_url).path
      /\ urlparse(ret[j]).fragment = urlparse(call.base_url).fragment
      /\ OtherPairs(ret[j]) = OtherPairs(call.base_url)

(* -------------------------------- C13 ---------------------------------- *)
\* C13: every generated URL has exactly one `start` parameter and its value
\* is the generated value, whether the base URL had none, one or several.
C13_SingleStart ==
  Returned /\ call.fn = "build_urls_from_range" =>
    \A j \in 1..Len(ret) :
      /\ Len(StartPairs(ret[j])) = 1
      /\ StartPairs(ret[j])[1].value =
           Str(RangeSeq(call.start_from, call.start_to + 1, call.step)[j])

\* the base URL carries start=7 before another parameter; the URL made
\* for 0 carries start=0 only, in the same place
C13_Witness ==
  /\ Returned
  /\ call.fn = "build_urls_from_range"
  /\ Len(StartPairs(call.base_url)) = 1
  /\ StartPairs(call.base_url)[1].value = <<"7">>
  /\ Len(QueryPairs(call.base_url)) = 2
  /\ IsStart(QueryPairs(call.base_url)[1])
  /\ call.start_from = 0
  /\ Len(ret) >= 1
  /\ Len(StartPairs(ret[1])) = 1
  /\ QueryPairs(ret[1])[1] = [name |-> StartName, value |-> <<"0">>]

(* --------------------- compute_full_height_inches ---------------------- *)
\* largest small scroll height explored, in CSS px
MaxScroll == 120

\* scroll_height / 96.0
PxPerInch == 96

\* lengths are counted in 1/480 inch, so that 1 px and 0.4 in are whole
UnitsPerInch == 5 * PxPerInch

Inches(n) == n * UnitsPerInch

\* min_in=1.0, max_in=200.0, margin_in=0.4
DefaultMinIn == Inches(1)

DefaultMaxIn == Inches(200)

DefaultMarginIn == Inches(2) \div 5

MaxOf(a, b) == IF a >= b THEN a ELSE b

MinOf(a, b) == IF a <= b THEN a ELSE b

ClampLowOnly(h, lo, hi) == MaxOf(lo, h)

\* line 47: max(min_in, min(height_inches, max_in))
Clamp(h, lo, hi) == MaxOf(lo, MinOf(h, hi))

\* lines 46-47, on the scroll height the script of lines 40-45 returned
compute_full_height_inches(scroll_height, min_in, max_in, margin_in) ==
  LET height_inches ==
        scroll_height * (UnitsPerInch \div PxPerInch) + margin_in * 2
  IN  Clamp(height_inches, min_in, max_in)

\* the heights measured: every small one, those around the default
\* maximum, and a 50,000 px page
ScrollHeights == (0..MaxScroll) \cup {19123, 19124, 50000}

\* (min_in, max_in): the defaults, narrow windows, and one with min > max
HeightWindows ==
  { <<DefaultMinIn, DefaultMaxIn>>, <<Inches(1), Inches(2)>>,
    <<0, Inches(1)>>, <<Inches(2), Inches(2)>>, <<Inches(2), Inches(1)>> }

HeightCalls ==
  [fn : {"compute_full_height_inches"}, scroll_height : ScrollHeights,
   window : HeightWindows, margin_in : {0, DefaultMarginIn, Inches(1)}]

InitHeight ==
  /\ NotInMain
  /\ pc = "call"
  /\ call \in HeightCalls
  /\ ret = 0

\* line 58: paper_height_in = compute_full_height_inches(...)
CallHeight ==
  /\ pc = "call"
  /\ call.fn = "compute_full_height_inches"
  /\ ret' = compute_full_height_inches(call.scroll_height, call.window[1],
                                       call.window[2], call.margin_in)
  /\ pc' = "returned"
  /\ UNCHANGED <<MainVars, call>>

SpecHeight == InitHeight /\ [][CallHeight]_vars

(* -------------------------------- C14 ---------------------------------- *)
\* C14: no larger scroll height gives a smaller paper height; for
\* min_in <= max_in the paper height is within [min_in, max_in]; with the
\* defaults a height of 0 gives min_in and a 50,000 px page gives max_in.
C14_HeightMonotonicClamped ==
  Returned /\ call.fn = "compute_full_height_inches" =>
    /\ \A h2 \in ScrollHeights :
         h2 >= call.scroll_height =>
           ret <= compute_full_height_inches(h2, call.window[1],
                                             call.window[2], call.margin_in)
    /\ call.window[1] <= call.window[2] =>
         call.window[1] <= ret /\ ret <= call.window[2]
    /\ call.window = <<DefaultMinIn, DefaultMaxIn>>
         /\ call.margin_in = DefaultMarginIn =>
           /\ call.scroll_height = 0 => ret = DefaultMinIn
           /\ call.scroll_height = 50000 => ret = DefaultMaxIn

\* a 50,000 px page with the defaults: 520.8 + 0.8 in, clamped to 200 in
C14_Witness ==
  /\ Returned
  /\ call.fn = "compute_full_height_inches"
  /\ call.scroll_height = 50000
  /\ call.window = <<DefaultMinIn, DefaultMaxIn>>
  /\ call.margin_in = DefaultMarginIn
  /\ ret = Inches(200)

(* ----------------------------- merge_pdfs ------------------------------ *)
\* most input documents of one merge explored
MaxInputs == 3
\* most pages of one input document explored
MaxPages == 2

DocPaths == {"p1", "p2", "p3"}

\* a document of n pages at path p: its pages are told apart by path and
\* page number
DocOf(p, n) == [j \in 1..n |-> [doc |-> p, no |-> j]]

DocStores == { [p \in DocPaths |-> DocOf(p, cnt[p])] :
               cnt \in [DocPaths -> 0..MaxPages] }

MergeCalls ==
  [fn : {"merge_pdfs"},
   inputs : UNION { [1..n -> DocPaths] : n \in 0..MaxInputs },
   docs : DocStores]

InitMerge ==
  /\ NotInMain
  /\ pc = "call"
  /\ call \in MergeCalls
  /\ ret = <<>>

\* line 235: merge_pdfs(pdf_paths, merged_path); ret is what is written
CallMerge ==
  /\ pc = "call"
  /\ call.fn = "merge_pdfs"
  /\ ret' = MergePages(call.inputs, call.docs)
  /\ pc' = "returned"
  /\ UNCHANGED <<MainVars, call>>

SpecMerge == InitMerge /\ [][CallMerge]_vars

(* -------------------------------- C15 ---------------------------------- *)
\* pages of the inputs before the d-th
RECURSIVE PagesBefore(_, _, _)
PagesBefore(inputs, docs, d) ==
  IF d <= 1 THEN 0
  ELSE PagesBefore(inputs, docs, d - 1) + Len(docs[inputs[d - 1]])

\* C15: the merged document has as many pages as the inputs together, and
\* page j of the d-th input is its page number (pages before input d) + j;
\* so n one-page inputs give n pages, the d-th being the page of input d.
C15_MergeConcatenates ==
  Returned /\ call.fn = "merge_pdfs" =>
    /\ Len(ret) = PagesBefore(call.inputs, call.docs, Len(call.inputs) + 1)
    /\ \A d \in 1..Len(call.inputs) :
         \A j \in 1..Len(call.docs[call.inputs[d]]) :
           ret[PagesBefore(call.inputs, call.docs, d) + j]
             = call.docs[call.inputs[d]][j]
    /\ (\A d \in 1..Len(call.inputs) : Len(call.docs[call.inputs[d]]) = 1) =>
         /\ Len(ret) = Len(call.inputs)
         /\ \A d \in 1..Len(call.inputs) : ret[d] = call.docs[call.inputs[d]][1]

\* a two-page document between two one-page documents: four pages in order
C15_Witness ==
  /\ Returned
  /\ call.fn = "merge_pdfs"
  /\ call.inputs = <<"p2", "p1", "p3">>
  /\ ret = << [doc |-> "p2", no |-> 1], [doc |-> "p1", no |-> 1],
              [doc |-> "p1", no |-> 2], [doc |-> "p3", no |-> 1] >>

(* ------------------------------ safe_name ------------------------------ *)
\* longest URL explored character by character
MaxUrlLen == 4

\* one safe character, the separators of a URL, whitespace, and "_" itself
NameAlphabet == {"a", "?", ":", "/", " ", "_"}

ShortUrls == UNION { [1..n -> NameAlphabet] : n \in 0..MaxUrlLen }

Fill(c, n) == [j \in 1..n |-> c]

\* URLs around the length bound: a filling of MaxNameLen - 1 equal
\* characters between a short head and a short tail
LongUrls ==
  { hd \o Fill(c, MaxNameLen - 1) \o tl :
      hd \in UNION { [1..n -> {"a", "?", " "}] : n \in 0..1 },
      c  \in {"a", "?"},
      tl \in UNION { [1..n -> {"a", "?"}] : n \in 0..2 } }

NameCalls == [fn : {"safe_name"}, url : ShortUrls \cup LongUrls]

InitName ==
  /\ NotInMain
  /\ pc = "call"
  /\ call \in NameCalls
  /\ ret = <<>>

\* line 187: safe_name(url)
CallName ==
  /\ pc = "call"
  /\ call.fn = "safe_name"
  /\ ret' = safe_name(call.url)
  /\ pc' = "returned"
  /\ UNCHANGED <<MainVars, call>>

SpecName == InitName /\ [][CallName]_vars

(* -------------------------------- C16 ---------------------------------- *)
\* the text that is made safe: the stripped URL after its last "://",
\* cut at the length bound
BaseOf(u) == Truncate(AfterLastSep(strip(u)), MaxNameLen)

\* positions of base that leave a character in the name: every safe
\* character, and the first character of every maximal run of other ones
Kept(base) ==
  { q \in 1..Len(base) :
      base[q] \in SafeChars \/ q = 1 \/ base[q - 1] \in SafeChars }

Rank(base, q) == Cardinality({ r \in Kept(base) : r <= q })

\* C16: the name is never empty, has only characters of [a-zA-Z0-9._-], is
\* at most 150 long, and is the base with every safe character kept and
\* every maximal run of other characters replaced by one "_" ("page" when
\* nothing is left).
C16_SafeName ==
  Returned /\ call.fn = "safe_name" =>
    LET base == BaseOf(call.url) IN
    /\ ret # <<>>
    /\ \A q \in 1..Len(ret) : ret[q] \in SafeChars
    /\ Len(ret) <= MaxNameLen
    /\ IF base = <<>> THEN ret = <<"p", "a", "g", "e">>
       ELSE /\ Len(ret) = Cardinality(Kept(base))
            /\ \A q \in Kept(base) :
                 ret[Rank(base, q)]
                   = IF base[q] \in SafeChars THEN base[q] ELSE "_"

\* a URL longer than the bound whose cut falls inside a run of "?": the
\* name has exactly 150 characters and ends with the single "_" of that run
C16_Witness ==
  /\ Returned
  /\ call.fn = "safe_name"
  /\ call.url = Fill("a", MaxNameLen - 1) \o <<"?", "?">>
  /\ Len(ret) = MaxNameLen
  /\ ret = Fill("a", MaxNameLen - 1) \o <<"_">>

(* -------------------------------- C17 ---------------------------------- *)
\* C17: every position is paced at most once, and exactly once as soon as
\* its pacing step is behind it: before any attempt is counted and before
\* any navigation. A retry adds a backoff sleep and no pacing sleep: when
\* attempt a of a position starts, it has slept a - 1 backoffs and one
\* pacing.
C17_PacedOncePerUrl ==
  pc \notin {"call", "returned"} =>
    /\ \A k \in Positions :
         /\ log[k].pacing <= 1
         /\ (k < i => log[k].pacing = 1)
         /\ (k > i => log[k].pacing = 0 /\ log[k].attempts = 0)
         /\ (log[k].attempts > 0 => log[k].pacing = 1)
    /\ (pc = "pacing" =>
          log[i].pacing = 0 /\ log[i].attempts = 0 /\ navs = 0)
    /\ (i >= 1 /\ pc # "pacing" => log[i].pacing = 1)
    /\ (navs > 0 => log[i].pacing = 1)
    /\ (pc = "get" =>
          /\ log[i].attempts = attempts
          /\ FailedAttempts(i) = attempts - 1
          /\ log[i].pacing = 1)

\* the third attempt of a position is about to navigate: two backoff
\* sleeps and still one pacing sleep
C17_Witness ==
  /\ pc = "get"
  /\ attempts = MaxAttempts
  /\ log[i].pacing = 1
  /\ log[i].backoffs = <<BackoffBase, 2 * BackoffBase>>

(* -------------------------------- C18 ---------------------------------- *)
\* C18 as stated: at the end of every run each URL is in exactly one of
\* success (recorded) and exhausted (3 failed attempts, nothing recorded).
C18_EveryUrlSettles ==
  pc = "done" =>
    \A k \in Positions : Recorded(k) # Exhausted(k)

C18_Safe ==
  /\ attempts <= MaxAttempts
  /\ \A k \in Positions :
       /\ log[k].attempts <= MaxAttempts
       /\ ~(Recorded(k) /\ Exhausted(k))
  /\ (pc = "done" /\ ~LoopAborted =>
        \A k \in Positions : Recorded(k) \/ Exhausted(k))

\* C18 (amended): every run terminates and no URL is attempted more than 3
\* times; when no exception other than a browser-control error left the
\* loop, every URL ends in exactly one of success and exhausted.
C18_Terminates == <>(pc = "done") /\ []C18_Safe

\* a finished run of two URLs, one exhausted and one recorded
C18_Witness ==
  /\ pc = "done"
  /\ ~LoopAborted
  /\ N = 2
  /\ Exhausted(1)
  /\ ~Recorded(1)
  /\ Recorded(2)
  /\ ~Exhausted(2)

(* -------------------------------- C19 ---------------------------------- *)
\* the steps that call the browser session: navigation, challenge
\* inspection, media emulation, height measurement, print
BrowserPcs == {"get", "captcha_find", "captcha_poll", "reload", "p_get",
               "p_media", "p_measure", "p_print"}

C19_Inv ==
  /\ (pc \in BrowserPcs => session = "open")
  /\ (session = "closed" => pc \in {"post", "done"} /\ quitCount = 1)
  /\ (pc = "post" => session = "closed")
  /\ (exitStatus \in {"0", "2"} \/ merged.state # "absent" =>
        session = "closed" /\ quitCount = 1)
  /\ (NoUrls(urls) => session = "none" /\ quitCount = 0)
  /\ (exitStatus = "1" => NoUrls(urls) /\ pc = "done")

\* once closed the session stays closed, no page is loaded and nothing is
\* printed
C19_Step ==
  session = "closed" =>
    /\ session' = "closed"
    /\ navs' = navs
    /\ page' = page
    /\ files' = files
    /\ pdf_paths' = pdf_paths

\* C19: the session is open at every step that calls it and nothing calls
\* it after the close; the merge and the exit statuses 0 and 2 are decided
\* with the session closed; an empty URL sequence ends the run with status 1
\* and no session ever acquired or closed.
C19_NothingAfterClose == []C19_Inv /\ [][C19_Step]_vars

\* a run that merged its artifacts after closing the session
C19_Witness ==
  /\ pc = "done"
  /\ exitStatus = "0"
  /\ merged.state = "written"
  /\ session = "closed"
  /\ quitCount = 1
  /\ Len(pdf_paths) = 2

(* -------------------------------- C20 ---------------------------------- *)
\* the challenge check of the current attempt found markers: it waited and
\* ended by clearance, by timeout, or by a lookup error during the polling
\* (a lookup error of the first look happens with no time elapsed)
Detected ==
  \/ captcha \in {"waiting", "cleared", "timeout"}
  \/ captcha = "error" /\ elapsed > 0

\* the current attempt succeeded; its navigations are still counted
AttemptSucceeded == pc = "cooldown" /\ Recorded(i)

NavsAtPrint == IF captcha \in {"cleared", "timeout"} THEN 3 ELSE 2

====
